---- MODULE Spec2Model ----
(***************************************************************************)
(* Model of the trigram index writer (libcindex::writer::IndexWriter) and  *)
(* of the merge-side posting reader (libcindex::merge::PostMapReader).     *)
(*                                                                         *)
(* Files (the temp files and the target index) are sequences of bytes.     *)
(* A u32 is represented by its value; the only value above 2^31 the code   *)
(* uses, u32::MAX, is represented by its two's-complement reading -1, so   *)
(* that wrapping_add is plain addition on the values the model reaches.    *)
(***************************************************************************)
EXTENDS Integers, Sequences, FiniteSets, TLC

\* ------------------------------------------------------------------ bounds
\* Number of calls of add in one run.
MaxAdds == 2
\* Number of calls of the public flush_post in one run.
MaxFlushPost == 1
\* Number of paths handed to add_paths in one run.
MaxPaths == 1
\* Length of the trigram stream the trigram reader yields for one file.
MaxStream == 3
\* Capacity of the in-memory post buffer (scaled down from (64 << 20) / 8).
NPOST == 2
\* Capacity of the BufReader copy_file reads a temp file through (scaled down
\* from the 8 KiB of std::io::BufReader::new).
BufCap == 8
\* Number of calls of add before a flush during which an I/O error happens.
MaxIoAdds == 1
\* Number of files of an index a PostMapReader is run on.
MaxCorpus == 3
\* Number of files of an index of which a directory entry is damaged.
MaxCorruptCorpus == 2
\* Greatest count written into a damaged directory entry.
MaxCount == 2
\* Number of bytes behind the posting-data section that the offset of a damaged
\* directory entry can point to.
MaxBeyond == 8
\* IndexWriter.max_file_len (scaled down from 1 << 30).
max_file_len == 1
\* IndexWriter.max_trigram_count (scaled down from 30000).
max_trigram_count == 2

\* ----------------------------------------------------------------- inputs
\* u32::MAX in the two's-complement representation.
U32_MAX == 0 - 1

\* Trigrams of valid UTF-8 text: "abc", "bcd" and "cde" as 24-bit integers.
Trigrams == {6382179, 6447460, 6512741}

\* The END trigram 0xffffff.
END_TRIGRAM == 16777215

\* File names as byte strings; <<255>> is an OsString that is not UTF-8.
Names == {<<97>>, <<98, 99>>, <<255>>}

\* What the trigram reader can report after it is exhausted.
ReaderErrors == {"LineTooLong", "BinaryDataPresent", "HighInvalidUtf8Ratio"}

\* The sizes a caller can pass to add.
Sizes == {max_file_len, max_file_len + 1}

RECURSIVE SeqsUpTo(_, _)
SeqsUpTo(S, n) ==
    IF n = 0 THEN {<<>>}
    ELSE LET shorter == SeqsUpTo(S, n - 1)
         IN  shorter \cup {Append(s, x) : s \in {t \in shorter : Len(t) = n - 1}, x \in S}

\* The trigram streams a reader can yield (repetitions included).
Streams == SeqsUpTo(Trigrams, MaxStream)

\* --------------------------------------------------------------- encoding
\* byteorder: write_u32::<BigEndian>
write_u32(v) ==
    << (v \div 16777216) % 256, (v \div 65536) % 256, (v \div 256) % 256, v % 256 >>

\* byteorder: read_u32::<BigEndian> at 1-based position pos of buf
read_u32(buf, pos) ==
    buf[pos] * 16777216 + buf[pos + 1] * 65536 + buf[pos + 2] * 256 + buf[pos + 3]

\* WriteTrigram::write_trigram
write_trigram(t) ==
    << (t \div 65536) % 256, (t \div 256) % 256, t % 256 >>

read_trigram(buf, pos) ==
    buf[pos] * 65536 + buf[pos + 1] * 256 + buf[pos + 2]

\* libvarint::write_uvarint: unsigned LEB128
RECURSIVE write_uvarint(_)
write_uvarint(v) ==
    IF v < 128 THEN <<v>> ELSE <<(v % 128) + 128>> \o write_uvarint(v \div 128)

\* libvarint::read_uvarint at 1-based position pos of buf: [value, n], n = 0
\* when no terminating byte comes before the end of the input.
RECURSIVE read_uvarint(_, _)
read_uvarint(buf, pos) ==
    IF pos > Len(buf) THEN [value |-> 0, n |-> 0]
    ELSE IF buf[pos] < 128 THEN [value |-> buf[pos], n |-> 1]
    ELSE LET rest == read_uvarint(buf, pos + 1)
         IN  IF rest.n = 0 THEN [value |-> 0, n |-> 0]
             ELSE [value |-> (buf[pos] - 128) + 128 * rest.value, n |-> rest.n + 1]

\* consts::MAGIC and consts::TRAILER_MAGIC
MAGIC == <<99, 115, 101, 97, 114, 99, 104, 32, 105, 110, 100, 101, 120, 32, 49, 10>>
TRAILER_MAGIC == <<10, 99, 115, 101, 97, 114, 99, 104, 32, 116, 114, 97, 105, 108, 114, 10>>

\* Path::to_str: the name as UTF-8, or None. Over the bytes of Names a
\* string is UTF-8 exactly when every byte is ASCII (0xff starts no codepoint).
to_str(name) ==
    IF \A i \in 1..Len(name) : name[i] < 128
    THEN [some |-> TRUE, s |-> name]
    ELSE [some |-> FALSE, s |-> <<>>]

\* ------------------------------------------------------------ post entries
\* PostEntry::new
PostEntry(t, f) == [trigram |-> t, file_id |-> f]

\* Order of post entries: the 64-bit value (trigram << 32) | file_id.
EntryLess(a, b) ==
    \/ a.trigram < b.trigram
    \/ a.trigram = b.trigram /\ a.file_id < b.file_id

\* sort_post
sort_post(p) == SortSeq(p, EntryLess)

\* SparseSet::insert on the dense array: append unless already a member.
sparse_insert(dense, t) ==
    IF \E i \in 1..Len(dense) : dense[i] = t THEN dense ELSE Append(dense, t)

RECURSIVE sparse_insert_all(_, _)
sparse_insert_all(dense, stream) ==
    IF stream = <<>> THEN dense
    ELSE sparse_insert_all(sparse_insert(dense, Head(stream)), Tail(stream))

\* ---------------------------------------------------------------- writer
\* IndexWriter::new: the fields of a fresh writer.
NewWriter ==
    [ paths |-> <<>>,
      name_data |-> <<>>,
      name_index |-> <<>>,
      trigram |-> <<>>,
      number_of_names_written |-> 0,
      bytes_written |-> 0,
      post |-> <<>>,
      post_files |-> <<>>,
      post_index |-> <<>>,
      index |-> <<>> ]

\* Mutant of flush_post: the sorted run is not kept.
flush_post_drops_run(w) == [w EXCEPT !.post = <<>>]

\* Mutant of flush_post: the run is spilled as the buffer holds it, unsorted.
flush_post_unsorted(w) ==
    [w EXCEPT !.post_files = Append(@, w.post), !.post = <<>>]

\* IndexWriter::flush_post
flush_post(w) ==
    [w EXCEPT !.post_files = Append(@, sort_post(w.post)), !.post = <<>>]

\* Mutant of push_trigrams_to_post: the buffer is spilled once it holds more
\* than NPOST entries.
RECURSIVE push_spills_late(_, _, _)
push_spills_late(w, file_id, trigrams) ==
    IF trigrams = <<>> THEN w
    ELSE LET w1 == IF Len(w.post) > NPOST THEN flush_post(w) ELSE w
             w2 == [w1 EXCEPT !.post = Append(@, PostEntry(Head(trigrams), file_id))]
         IN  push_spills_late(w2, file_id, Tail(trigrams))

\* IndexWriter::push_trigrams_to_post
RECURSIVE push_trigrams_to_post(_, _, _)
push_trigrams_to_post(w, file_id, trigrams) ==
    IF trigrams = <<>> THEN w
    ELSE LET w1 == IF Len(w.post) >= NPOST THEN flush_post(w) ELSE w
             w2 == [w1 EXCEPT !.post = Append(@, PostEntry(Head(trigrams), file_id))]
         IN  push_trigrams_to_post(w2, file_id, Tail(trigrams))

\* Mutant of add_name: the id is read after the counter was incremented.
add_name_id_after_increment(w, filename) ==
    LET offset == Len(w.name_data)
        w1 == [w EXCEPT !.name_index = @ \o write_u32(offset)]
        s == to_str(filename)
    IN  IF ~s.some
        THEN [w |-> w1, res |-> "FileNameError", id |-> U32_MAX]
        ELSE [w |-> [w1 EXCEPT !.name_data = @ \o s.s \o <<0>>,
                               !.number_of_names_written = @ + 1],
              res |-> "Ok",
              id |-> w.number_of_names_written + 1]

\* IndexWriter::add_name: the writer after the call, the result and the id.
add_name(w, filename) ==
    LET offset == Len(w.name_data)
        w1 == [w EXCEPT !.name_index = @ \o write_u32(offset)]
        s == to_str(filename)
    IN  IF ~s.some
        THEN [w |-> w1, res |-> "FileNameError", id |-> U32_MAX]
        ELSE [w |-> [w1 EXCEPT !.name_data = @ \o s.s \o <<0>>,
                               !.number_of_names_written = @ + 1],
              res |-> "Ok",
              id |-> w.number_of_names_written]

\* Mutant of add: the trigrams are pushed as they were read, without the
\* sparse set.
add_pushes_stream(w, filename, stream, err, size) ==
    IF size > max_file_len
    THEN [w |-> w, res |-> "FileTooLong", id |-> U32_MAX]
    ELSE LET w1 == [w EXCEPT !.trigram = stream]
         IN  IF err # "None"
             THEN [w |-> w1, res |-> err, id |-> U32_MAX]
             ELSE IF Len(w1.trigram) > max_trigram_count
             THEN [w |-> w1, res |-> "TooManyTrigrams", id |-> U32_MAX]
             ELSE LET w2 == [w1 EXCEPT !.bytes_written = @ + size]
                      n == add_name(w2, filename)
                  IN  IF n.res # "Ok"
                      THEN n
                      ELSE LET v == n.w.trigram
                               w3 == [n.w EXCEPT !.trigram = <<>>]
                           IN  [w |-> push_trigrams_to_post(w3, n.id, v),
                                res |-> "Ok",
                                id |-> n.id]

\* Mutant of add: a file of max_file_len bytes is rejected.
add_rejects_max_len(w, filename, stream, err, size) ==
    IF size >= max_file_len
    THEN [w |-> w, res |-> "FileTooLong", id |-> U32_MAX]
    ELSE LET w1 == [w EXCEPT !.trigram = sparse_insert_all(<<>>, stream)]
         IN  IF err # "None"
             THEN [w |-> w1, res |-> err, id |-> U32_MAX]
             ELSE IF Len(w1.trigram) > max_trigram_count
             THEN [w |-> w1, res |-> "TooManyTrigrams", id |-> U32_MAX]
             ELSE LET w2 == [w1 EXCEPT !.bytes_written = @ + size]
                      n == add_name(w2, filename)
                  IN  IF n.res # "Ok"
                      THEN n
                      ELSE LET v == n.w.trigram
                               w3 == [n.w EXCEPT !.trigram = <<>>]
                           IN  [w |-> push_trigrams_to_post(w3, n.id, v),
                                res |-> "Ok",
                                id |-> n.id]

\* Mutant of add: bytes_written is counted before the file is read.
add_counts_bytes_first(w, filename, stream, err, size) ==
    IF size > max_file_len
    THEN [w |-> w, res |-> "FileTooLong", id |-> U32_MAX]
    ELSE LET w1 == [w EXCEPT !.trigram = sparse_insert_all(<<>>, stream),
                             !.bytes_written = @ + size]
         IN  IF err # "None"
             THEN [w |-> w1, res |-> err, id |-> U32_MAX]
             ELSE IF Len(w1.trigram) > max_trigram_count
             THEN [w |-> w1, res |-> "TooManyTrigrams", id |-> U32_MAX]
             ELSE LET n == add_name(w1, filename)
                  IN  IF n.res # "Ok"
                      THEN n
                      ELSE LET v == n.w.trigram
                               w3 == [n.w EXCEPT !.trigram = <<>>]
                           IN  [w |-> push_trigrams_to_post(w3, n.id, v),
                                res |-> "Ok",
                                id |-> n.id]

\* IndexWriter::add. stream is what the trigram reader yields for the file
\* and err what its take_error reports afterwards ("None" for no error).
add(w, filename, stream, err, size) ==
    IF size > max_file_len
    THEN [w |-> w, res |-> "FileTooLong", id |-> U32_MAX]
    ELSE LET w1 == [w EXCEPT !.trigram = sparse_insert_all(<<>>, stream)]
         IN  IF err # "None"
             THEN [w |-> w1, res |-> err, id |-> U32_MAX]
             ELSE IF Len(w1.trigram) > max_trigram_count
             THEN [w |-> w1, res |-> "TooManyTrigrams", id |-> U32_MAX]
             ELSE LET w2 == [w1 EXCEPT !.bytes_written = @ + size]
                      n == add_name(w2, filename)
                  IN  IF n.res # "Ok"
                      THEN n
                      ELSE LET v == n.w.trigram
                               w3 == [n.w EXCEPT !.trigram = <<>>]
                           IN  [w |-> push_trigrams_to_post(w3, n.id, v),
                                res |-> "Ok",
                                id |-> n.id]

\* IndexWriter::add_paths
add_paths(w, ps) == [w EXCEPT !.paths = @ \o ps]

\* ------------------------------------------------------------- merge_post
\* PostHeap::into_iter: k-way merge, the least head of the runs first
\* (the lowest run on a tie).
RECURSIVE heap_iter(_)
heap_iter(runs) ==
    LET live == {i \in 1..Len(runs) : runs[i] # <<>>}
    IN  IF live = {} THEN <<>>
        ELSE LET k == CHOOSE i \in live :
                        \A j \in live :
                            \/ EntryLess(runs[i][1], runs[j][1])
                            \/ ~EntryLess(runs[j][1], runs[i][1]) /\ i <= j
             IN  <<runs[k][1]>> \o heap_iter([runs EXCEPT ![k] = Tail(@)])

\* TakeWhilePeek: how many entries at the front of h carry the trigram of
\* its first entry.
RECURSIVE take_while_peek(_)
take_while_peek(h) ==
    IF Len(h) < 2 \/ h[2].trigram # h[1].trigram THEN 1
    ELSE 1 + take_while_peek(Tail(h))

\* to_diffs: the deltas of a stream of file ids from prev (u32::MAX at the
\* start, by wrapping arithmetic); an id equal to its predecessor is dropped.
RECURSIVE to_diffs(_, _)
to_diffs(prev, ids) ==
    IF ids = <<>> THEN <<>>
    ELSE IF Head(ids) = prev THEN to_diffs(prev, Tail(ids))
    ELSE <<Head(ids) - prev>> \o to_diffs(Head(ids), Tail(ids))

RECURSIVE write_uvarints(_)
write_uvarints(ds) ==
    IF ds = <<>> THEN <<>> ELSE write_uvarint(Head(ds)) \o write_uvarints(Tail(ds))

\* Mutant of the loop of merge_post: the file ids are written as they are,
\* not as deltas.
RECURSIVE write_post_lists_raw_ids(_, _, _)
write_post_lists_raw_ids(w, h, offset0) ==
    IF h = <<>> THEN w
    ELSE LET n == take_while_peek(h)
             offset == Len(w.index) - offset0
             plist_trigram == h[1].trigram
             ids == [i \in 1..n |-> h[i].file_id]
             written == Len(ids)
             w1 == [w EXCEPT
                      !.index = @ \o write_trigram(plist_trigram) \o write_uvarints(ids),
                      !.post_index = @ \o write_trigram(plist_trigram)
                                       \o write_u32(written - 1)
                                       \o write_u32(offset)]
         IN  write_post_lists_raw_ids(w1, SubSeq(h, n + 1, Len(h)), offset0)

\* Mutant of the loop of merge_post: the count field holds the number of
\* deltas, not the number minus one.
RECURSIVE write_post_lists_full_count(_, _, _)
write_post_lists_full_count(w, h, offset0) ==
    IF h = <<>> THEN w
    ELSE LET n == take_while_peek(h)
             offset == Len(w.index) - offset0
             plist_trigram == h[1].trigram
             diffs == to_diffs(U32_MAX, [i \in 1..n |-> h[i].file_id])
             written == Len(diffs)
             w1 == [w EXCEPT
                      !.index = @ \o write_trigram(plist_trigram) \o write_uvarints(diffs),
                      !.post_index = @ \o write_trigram(plist_trigram)
                                       \o write_u32(written)
                                       \o write_u32(offset)]
         IN  write_post_lists_full_count(w1, SubSeq(h, n + 1, Len(h)), offset0)

\* The loop of merge_post over the posting lists of the merged stream h.
RECURSIVE write_post_lists(_, _, _)
write_post_lists(w, h, offset0) ==
    IF h = <<>> THEN w
    ELSE LET n == take_while_peek(h)
             offset == Len(w.index) - offset0
             plist_trigram == h[1].trigram
             diffs == to_diffs(U32_MAX, [i \in 1..n |-> h[i].file_id])
             written == Len(diffs)
             w1 == [w EXCEPT
                      !.index = @ \o write_trigram(plist_trigram) \o write_uvarints(diffs),
                      !.post_index = @ \o write_trigram(plist_trigram)
                                       \o write_u32(written - 1)
                                       \o write_u32(offset)]
         IN  write_post_lists(w1, SubSeq(h, n + 1, Len(h)), offset0)

\* Mutant of merge_post: the in-memory buffer goes to the heap unsorted.
merge_post_unsorted(w) ==
    LET runs == Append(w.post_files, w.post)
        h == heap_iter(runs)
        offset0 == Len(w.index)
        w1 == write_post_lists([w EXCEPT !.post_files = <<>>, !.post = <<>>], h, offset0)
        offset == Len(w1.index) - offset0
    IN  [w1 EXCEPT
           !.index = @ \o write_trigram(END_TRIGRAM) \o write_uvarint(0),
           !.post_index = @ \o write_trigram(END_TRIGRAM) \o write_u32(0) \o write_u32(offset)]

\* Mutant of merge_post: the offset of the terminator entry is taken after
\* the END list has been written.
merge_post_offset_after_end(w) ==
    LET runs == Append(w.post_files, sort_post(w.post))
        h == heap_iter(runs)
        offset0 == Len(w.index)
        w1 == write_post_lists([w EXCEPT !.post_files = <<>>, !.post = <<>>], h, offset0)
        w2 == [w1 EXCEPT !.index = @ \o write_trigram(END_TRIGRAM) \o write_uvarint(0)]
        offset == Len(w2.index) - offset0
    IN  [w2 EXCEPT
           !.post_index = @ \o write_trigram(END_TRIGRAM) \o write_u32(0) \o write_u32(offset)]

\* IndexWriter::merge_post
merge_post(w) ==
    LET runs == Append(w.post_files, sort_post(w.post))
        h == heap_iter(runs)
        offset0 == Len(w.index)
        w1 == write_post_lists([w EXCEPT !.post_files = <<>>, !.post = <<>>], h, offset0)
        offset == Len(w1.index) - offset0
    IN  [w1 EXCEPT
           !.index = @ \o write_trigram(END_TRIGRAM) \o write_uvarint(0),
           !.post_index = @ \o write_trigram(END_TRIGRAM) \o write_u32(0) \o write_u32(offset)]

\* ------------------------------------------------------------------ flush
\* copy_file: the source file appended to the destination.
copy_file(dest, src) == dest \o src

\* The path list of flush: the paths up to the first that is not UTF-8,
\* each NUL-terminated, and whether all were written.
RECURSIVE write_paths(_)
write_paths(ps) ==
    IF ps = <<>> THEN [ok |-> TRUE, bytes |-> <<>>]
    ELSE LET s == to_str(Head(ps))
         IN  IF ~s.some THEN [ok |-> FALSE, bytes |-> <<>>]
             ELSE LET rest == write_paths(Tail(ps))
                  IN  [ok |-> rest.ok, bytes |-> s.s \o <<0>> \o rest.bytes]

\* Mutant of flush: the NUL that ends the path list is not written.
flush_no_list_end(w) ==
    LET n == add_name(w, <<>>)
        w1 == [n.w EXCEPT !.index = @ \o MAGIC]
        off0 == Len(w1.index)
        ps == write_paths(w1.paths)
        w2 == [w1 EXCEPT !.index = @ \o ps.bytes]
    IN  IF ~ps.ok THEN [w |-> w2, res |-> "FileNameError"]
        ELSE
        LET off1 == Len(w2.index)
            w4 == [w2 EXCEPT !.index = copy_file(@, w2.name_data)]
            off2 == Len(w4.index)
            w5 == merge_post(w4)
            off3 == Len(w5.index)
            w6 == [w5 EXCEPT !.index = copy_file(@, w5.name_index)]
            off4 == Len(w6.index)
            w7 == [w6 EXCEPT !.index = copy_file(@, w6.post_index)]
            w8 == [w7 EXCEPT !.index = @ \o write_u32(off0) \o write_u32(off1) \o write_u32(off2)
                                         \o write_u32(off3) \o write_u32(off4)]
        IN  [w |-> [w8 EXCEPT !.index = @ \o TRAILER_MAGIC], res |-> "Ok"]

\* Mutant of flush: the empty name that ends the name table is not added.
flush_no_sentinel(w) ==
    LET w1 == [w EXCEPT !.index = @ \o MAGIC]
        off0 == Len(w1.index)
        ps == write_paths(w1.paths)
        w2 == [w1 EXCEPT !.index = @ \o ps.bytes]
    IN  IF ~ps.ok THEN [w |-> w2, res |-> "FileNameError"]
        ELSE
        LET w3 == [w2 EXCEPT !.index = @ \o <<0>>]
            off1 == Len(w3.index)
            w4 == [w3 EXCEPT !.index = copy_file(@, w3.name_data)]
            off2 == Len(w4.index)
            w5 == merge_post(w4)
            off3 == Len(w5.index)
            w6 == [w5 EXCEPT !.index = copy_file(@, w5.name_index)]
            off4 == Len(w6.index)
            w7 == [w6 EXCEPT !.index = copy_file(@, w6.post_index)]
            w8 == [w7 EXCEPT !.index = @ \o write_u32(off0) \o write_u32(off1) \o write_u32(off2)
                                         \o write_u32(off3) \o write_u32(off4)]
        IN  [w |-> [w8 EXCEPT !.index = @ \o TRAILER_MAGIC], res |-> "Ok"]

\* IndexWriter::flush: the writer at the end of the call and the result.
flush(w) ==
    LET n == add_name(w, <<>>)
        w1 == [n.w EXCEPT !.index = @ \o MAGIC]
        off0 == Len(w1.index)
        ps == write_paths(w1.paths)
        w2 == [w1 EXCEPT !.index = @ \o ps.bytes]
    IN  IF ~ps.ok THEN [w |-> w2, res |-> "FileNameError"]
        ELSE
        LET w3 == [w2 EXCEPT !.index = @ \o <<0>>]
            off1 == Len(w3.index)
            w4 == [w3 EXCEPT !.index = copy_file(@, w3.name_data)]
            off2 == Len(w4.index)
            w5 == merge_post(w4)
            off3 == Len(w5.index)
            w6 == [w5 EXCEPT !.index = copy_file(@, w5.name_index)]
            off4 == Len(w6.index)
            w7 == [w6 EXCEPT !.index = copy_file(@, w6.post_index)]
            w8 == [w7 EXCEPT !.index = @ \o write_u32(off0) \o write_u32(off1) \o write_u32(off2)
                                         \o write_u32(off3) \o write_u32(off4)]
        IN  [w |-> [w8 EXCEPT !.index = @ \o TRAILER_MAGIC], res |-> "Ok"]

\* ------------------------------------------------------------------ state
VARIABLES
    paths,                      \* IndexWriter.paths
    name_data,                  \* the name-data temp file
    name_index,                 \* the name-index temp file
    trigram,                    \* the dense array of the sparse set
    number_of_names_written,
    bytes_written,
    post,                       \* the in-memory post buffer
    post_files,                 \* the spilled runs
    post_index,                 \* the post-index temp file
    index,                      \* the target index file
    pc,                         \* "Adding", or "Done" once flush has consumed the writer
    result,                     \* what the last call returned
    calls,                      \* history: number of calls of add
    spills,                     \* history: number of calls of the public flush_post
    added,                      \* history: the adds that returned Ok, in order
    clean,                      \* history: a writer that saw only the adds that returned Ok
    run_by,                     \* history: who spilled each run of post_files
    heap_runs,                  \* history: number of runs merge_post handed to the heap
    io_error,                   \* history: the file on which an I/O error happened, or "none"
    reader,                     \* the PostMapReader over index, or NoReader
    next_ret,                   \* what the last call of next_id returned
    yielded                     \* history: the file ids next_id returned for the current trigram

writer_vars ==
    << paths, name_data, name_index, trigram, number_of_names_written,
       bytes_written, post, post_files, post_index, index >>

vars ==
    << paths, name_data, name_index, trigram, number_of_names_written,
       bytes_written, post, post_files, post_index, index,
       pc, result, calls, spills, added, clean, run_by, heap_runs, io_error,
       reader, next_ret, yielded >>

reader_vars == << reader, next_ret, yielded >>

hist_vars == << run_by, heap_runs, io_error >>

\* No PostMapReader has been made.
NoReader == [id_map |-> <<>>, tri_num |-> U32_MAX]

\* The IndexWriter as a record.
Self ==
    [ paths |-> paths,
      name_data |-> name_data,
      name_index |-> name_index,
      trigram |-> trigram,
      number_of_names_written |-> number_of_names_written,
      bytes_written |-> bytes_written,
      post |-> post,
      post_files |-> post_files,
      post_index |-> post_index,
      index |-> index ]

\* The IndexWriter becomes w.
Becomes(w) ==
    /\ paths' = w.paths
    /\ name_data' = w.name_data
    /\ name_index' = w.name_index
    /\ trigram' = w.trigram
    /\ number_of_names_written' = w.number_of_names_written
    /\ bytes_written' = w.bytes_written
    /\ post' = w.post
    /\ post_files' = w.post_files
    /\ post_index' = w.post_index
    /\ index' = w.index

Init ==
    /\ paths = NewWriter.paths
    /\ name_data = NewWriter.name_data
    /\ name_index = NewWriter.name_index
    /\ trigram = NewWriter.trigram
    /\ number_of_names_written = NewWriter.number_of_names_written
    /\ bytes_written = NewWriter.bytes_written
    /\ post = NewWriter.post
    /\ post_files = NewWriter.post_files
    /\ post_index = NewWriter.post_index
    /\ index = NewWriter.index
    /\ pc = "Adding"
    /\ result = "none"
    /\ calls = 0
    /\ spills = 0
    /\ added = <<>>
    /\ clean = NewWriter
    /\ run_by = <<>>
    /\ heap_runs = 0
    /\ io_error = "none"
    /\ reader = NoReader
    /\ next_ret = "none"
    /\ yielded = <<>>

\* The set of the trigrams of a stream.
TrigramSet(stream) == {stream[i] : i \in 1..Len(stream)}

\* A call of add.
Add(filename, stream, err, size) ==
    /\ pc = "Adding"
    /\ calls < MaxAdds
    /\ LET r == add(Self, filename, stream, err, size)
       IN  /\ Becomes(r.w)
           /\ result' = r.res
           /\ added' = IF r.res = "Ok"
                       THEN Append(added, [filename |-> filename,
                                           trigrams |-> TrigramSet(stream),
                                           file_id |-> r.id])
                       ELSE added
           /\ clean' = IF r.res = "Ok"
                       THEN add(clean, filename, stream, err, size).w
                       ELSE clean
           /\ run_by' = run_by \o [k \in 1..(Len(r.w.post_files) - Len(post_files)) |-> "push"]
    /\ calls' = calls + 1
    /\ UNCHANGED << pc, spills, heap_runs, io_error, reader_vars >>

\* A call of add_paths.
AddPaths(ps) ==
    /\ pc = "Adding"
    /\ Len(paths) + Len(ps) <= MaxPaths
    /\ Becomes(add_paths(Self, ps))
    /\ clean' = add_paths(clean, ps)
    /\ result' = "none"
    /\ UNCHANGED << pc, calls, spills, added, hist_vars, reader_vars >>

\* A call of the public flush_post.
FlushPost ==
    /\ pc = "Adding"
    /\ spills < MaxFlushPost
    /\ Becomes(flush_post(Self))
    /\ clean' = flush_post(clean)
    /\ result' = "Ok"
    /\ spills' = spills + 1
    /\ run_by' = Append(run_by, "public")
    /\ UNCHANGED << pc, calls, added, heap_runs, io_error, reader_vars >>

\* Mutant of Flush: a flush that fails leaves the writer to its caller.
Flush_keeps_failed_writer ==
    /\ pc = "Adding"
    /\ LET r == flush(Self)
       IN  /\ Becomes(r.w)
           /\ result' = r.res
           /\ heap_runs' = IF r.res = "Ok" THEN Len(post_files) + 1 ELSE heap_runs
           /\ pc' = IF r.res = "Ok" THEN "Done" ELSE "Adding"
    /\ clean' = flush(clean).w
    /\ UNCHANGED << calls, spills, added, run_by, io_error, reader_vars >>

\* A call of flush, which consumes the writer.
Flush ==
    /\ pc = "Adding"
    /\ LET r == flush(Self)
       IN  /\ Becomes(r.w)
           /\ result' = r.res
           /\ heap_runs' = IF r.res = "Ok" THEN Len(post_files) + 1 ELSE heap_runs
    /\ clean' = flush(clean).w
    /\ pc' = "Done"
    /\ UNCHANGED << calls, spills, added, run_by, io_error, reader_vars >>

Next ==
    \/ \E filename \in Names, stream \in Streams, err \in ReaderErrors \cup {"None"},
          size \in Sizes : Add(filename, stream, err, size)
    \/ \E ps \in SeqsUpTo(Names, 1) : AddPaths(ps)
    \/ FlushPost
    \/ Flush

Spec == Init /\ [][Next]_vars

\* ------------------------------------------------------------- I/O errors
\* The outcomes of the I/O calls of one copy_file: none fails, the seek to the
\* start of the source fails, the fill_buf or the write_all of one chunk fails,
\* or the flush of the temp file that flush makes before the copy fails.
NoFault == [kind |-> "none", chunk |-> 0]

IoFaults(len) ==
    {[kind |-> "seek", chunk |-> 0], [kind |-> "flush", chunk |-> 0]}
    \cup {[kind |-> "read", chunk |-> j] : j \in 0..(len \div BufCap)}
    \cup {[kind |-> "write", chunk |-> j] : j \in {k \in 0..(len \div BufCap) : k * BufCap < len}}

\* The first j chunks of a file read through a BufReader.
Chunks(src, j) ==
    SubSeq(src, 1, IF j * BufCap < Len(src) THEN j * BufCap ELSE Len(src))

\* copy_file under a fault: an error of seek or of write_all is unwrapped and
\* panics, an error of fill_buf ends the loop as the end of the file does.
copy_file_io(dest, src, fault) ==
    CASE fault.kind = "seek"  -> [dest |-> dest, panic |-> TRUE]
      [] fault.kind = "read"  -> [dest |-> dest \o Chunks(src, fault.chunk), panic |-> FALSE]
      [] fault.kind = "write" -> [dest |-> dest \o Chunks(src, fault.chunk), panic |-> TRUE]
      [] OTHER                -> [dest |-> copy_file(dest, src), panic |-> FALSE]

\* IndexWriter::flush when the I/O on the temp file of one section fails.
flush_io(w, section, fault) ==
    LET n == add_name(w, <<>>)
        w1 == [n.w EXCEPT !.index = @ \o MAGIC]
        off0 == Len(w1.index)
        ps == write_paths(w1.paths)
        w2 == [w1 EXCEPT !.index = @ \o ps.bytes]
        F(sec) == IF section = sec THEN fault ELSE NoFault
    IN  IF ~ps.ok THEN [w |-> w2, res |-> "FileNameError"]
        ELSE
        LET w3 == [w2 EXCEPT !.index = @ \o <<0>>]
            off1 == Len(w3.index)
            c1 == copy_file_io(w3.index, w3.name_data, F("name_data"))
            w4 == [w3 EXCEPT !.index = c1.dest]
            off2 == Len(w4.index)
            w5 == merge_post(w4)
            off3 == Len(w5.index)
            c2 == copy_file_io(w5.index, w5.name_index, F("name_index"))
            w6 == [w5 EXCEPT !.index = c2.dest]
            off4 == Len(w6.index)
            c3 == copy_file_io(w6.index, w6.post_index, F("post_index"))
            w7 == [w6 EXCEPT !.index = c3.dest]
            w8 == [w7 EXCEPT !.index = @ \o write_u32(off0) \o write_u32(off1) \o write_u32(off2)
                                         \o write_u32(off3) \o write_u32(off4)]
        IN  CASE F("name_data").kind = "flush"  -> [w |-> w3, res |-> "IoError"]
              [] c1.panic                       -> [w |-> w4, res |-> "panic"]
              [] F("name_index").kind = "flush" -> [w |-> w5, res |-> "IoError"]
              [] c2.panic                       -> [w |-> w6, res |-> "panic"]
              [] F("post_index").kind = "flush" -> [w |-> w6, res |-> "IoError"]
              [] c3.panic                       -> [w |-> w7, res |-> "panic"]
              [] OTHER -> [w |-> [w8 EXCEPT !.index = @ \o TRAILER_MAGIC], res |-> "Ok"]

\* The temp files as flush copies them.
TempFiles ==
    [ name_data  |-> add_name(Self, <<>>).w.name_data,
      name_index |-> add_name(Self, <<>>).w.name_index,
      post_index |-> merge_post(Self).post_index ]

\* A call of flush during which the I/O on one temp file fails.
FlushIo(section) ==
    /\ pc = "Adding"
    /\ calls <= MaxIoAdds
    /\ write_paths(paths).ok
    /\ \E fault \in IoFaults(Len(TempFiles[section])) :
           LET r == flush_io(Self, section, fault)
           IN  /\ Becomes(r.w)
               /\ result' = r.res
               /\ heap_runs' = IF section = "name_data" /\ r.res # "Ok"
                               THEN heap_runs ELSE Len(post_files) + 1
    /\ io_error' = section
    /\ clean' = flush(clean).w
    /\ pc' = "Done"
    /\ UNCHANGED << calls, spills, added, run_by, reader_vars >>

NextIo ==
    \/ Next
    \/ \E section \in {"name_data", "name_index", "post_index"} : FlushIo(section)

SpecIo == Init /\ [][NextIo]_vars

\* ------------------------------------------------------------ index reader
\* Size of a post directory entry as merge_post writes it: a trigram of 3
\* bytes, a count of 4 and an offset of 4.
POST_ENTRY_SIZE == 3 + 4 + 4

\* IndexReader::open: where the five section offsets start (0-based).
trailer_start(ix) == Len(ix) - Len(TRAILER_MAGIC) - 20

\* IndexReader::open: the k-th section offset of the trailer, k in 0..4.
section_offset(ix, k) == read_u32(ix, trailer_start(ix) + 4 * k + 1)

\* IndexReader.post_data
reader_post_data(ix) == section_offset(ix, 2)

\* IndexReader.num_name
num_name(ix) == (section_offset(ix, 4) - section_offset(ix, 3)) \div 4 - 1

\* IndexReader.num_post
num_post(ix) == (trailer_start(ix) - section_offset(ix, 4)) \div POST_ENTRY_SIZE - 1

\* IndexReader::list_at
list_at(ix, entry_offset) ==
    LET p == section_offset(ix, 4) + entry_offset + 1
    IN  [trigram |-> read_trigram(ix, p),
         count |-> read_u32(ix, p + 3),
         offset |-> read_u32(ix, p + 7)]

\* The k-th entry of the post directory, k in 0..num_post (the last one is
\* the terminator).
dir_entry(ix, k) == list_at(ix, k * POST_ENTRY_SIZE)

\* IndexReader::find_list: the directory entries that carry trigram t.
find_list(ix, t) == {k \in 0..(num_post(ix) - 1) : dir_entry(ix, k).trigram = t}

\* n varints decoded from 1-based position pos of buf (a value of -1 stands
\* for a varint that could not be read).
RECURSIVE read_deltas(_, _, _)
read_deltas(buf, pos, n) ==
    IF n = 0 THEN <<>>
    ELSE LET v == read_uvarint(buf, pos)
         IN  IF v.n = 0 THEN <<0 - 1>>
             ELSE <<v.value>> \o read_deltas(buf, pos + v.n, n - 1)

\* The file ids of a sequence of deltas, summed from prev.
RECURSIVE undiff(_, _)
undiff(prev, ds) ==
    IF ds = <<>> THEN <<>>
    ELSE <<prev + Head(ds)>> \o undiff(prev + Head(ds), Tail(ds))

\* The count + 1 deltas of the posting list of directory entry k.
list_deltas(ix, k) ==
    LET e == dir_entry(ix, k)
    IN  read_deltas(ix, reader_post_data(ix) + e.offset + 3 + 1, e.count + 1)

\* The file ids of the posting list of directory entry k, in stored order.
list_ids(ix, k) == undiff(U32_MAX, list_deltas(ix, k))

\* PostReader::list without a restriction: the set of the file ids of t.
list(ix, t) ==
    IF find_list(ix, t) = {} THEN {}
    ELSE LET k == CHOOSE j \in find_list(ix, t) : TRUE
             ids == list_ids(ix, k)
         IN  {ids[i] : i \in 1..Len(ids)}

\* The file ids of a posting list that the sorted set restrict holds, kept
\* one by one while the list is decoded.
RECURSIVE intersect_inline(_, _)
intersect_inline(ids, restrict) ==
    IF ids = <<>> THEN {}
    ELSE (IF Head(ids) \in restrict THEN {Head(ids)} ELSE {})
             \cup intersect_inline(Tail(ids), restrict)

\* PostReader::list with a restriction.
list_restrict(ix, t, restrict) ==
    IF find_list(ix, t) = {} THEN {}
    ELSE LET k == CHOOSE j \in find_list(ix, t) : TRUE
         IN  intersect_inline(list_ids(ix, k), restrict)

\* Mutant of and: the set a is not used.
and_without_a(ix, a, t) == list(ix, t)

\* PostReader::and
and(ix, a, t) == a \cap list_restrict(ix, t, a)

\* PostReader::or
or(ix, a, t) == a \cup list(ix, t)

\* The name table: the NUL-terminated names of a name-data file, in order.
RECURSIVE name_table(_)
name_table(nd) ==
    IF nd = <<>> THEN <<>>
    ELSE LET z == CHOOSE i \in 1..Len(nd) : nd[i] = 0 /\ \A j \in 1..(i - 1) : nd[j] # 0
         IN  <<SubSeq(nd, 1, z - 1)>> \o name_table(SubSeq(nd, z + 1, Len(nd)))

\* The offsets of a name-index file.
name_offsets(ni) == [i \in 1..(Len(ni) \div 4) |-> read_u32(ni, 4 * (i - 1) + 1)]

\* ---------------------------------------------------------- PostMapReader
\* PostMapReader::load. d is the start of the slice self.d within the index.
load(r, ix) ==
    IF r.tri_num >= num_post(ix)
    THEN [r EXCEPT !.trigram = U32_MAX, !.count = 0, !.file_id = U32_MAX]
    ELSE LET e == list_at(ix, r.tri_num * POST_ENTRY_SIZE)
             r1 == [r EXCEPT !.trigram = e.trigram, !.count = e.count, !.offset = e.offset]
         IN  IF e.count = 0
             THEN [r1 EXCEPT !.file_id = U32_MAX]
             ELSE [r1 EXCEPT !.d = reader_post_data(ix) + r1.offset + 3,
                             !.old_id = U32_MAX,
                             !.i = 0]

\* PostMapReader::new
new(ix, id_map) ==
    load([ id_map |-> id_map,
           tri_num |-> 0,
           trigram |-> U32_MAX,
           count |-> 0,
           offset |-> 0,
           d |-> 0,
           old_id |-> U32_MAX,
           file_id |-> 0,
           i |-> 0 ], ix)

\* PostMapReader::next_trigram
next_trigram(r, ix) == load([r EXCEPT !.tri_num = @ + 1], ix)

\* Mutant of advance: a range is passed only when its high is below old_id.
RECURSIVE advance_keeps_high(_, _, _)
advance_keeps_high(id_map, i, old_id) ==
    IF i < Len(id_map) /\ id_map[i + 1].high < old_id
    THEN advance_keeps_high(id_map, i + 1, old_id)
    ELSE i

\* The inner loop of next_id: the cursor i moved past the ranges whose high
\* is at most old_id.
RECURSIVE advance(_, _, _)
advance(id_map, i, old_id) ==
    IF i < Len(id_map) /\ id_map[i + 1].high <= old_id
    THEN advance(id_map, i + 1, old_id)
    ELSE i

\* Mutant of next_id: the new id of the range is emitted without the
\* distance of old_id from the low of the range.
RECURSIVE next_id_emits_new(_, _)
next_id_emits_new(r, ix) ==
    IF r.count > 0
    THEN LET r1 == [r EXCEPT !.count = @ - 1]
             v == read_uvarint(ix, r1.d + 1)
         IN  IF v.n <= 0 \/ v.value = 0
             THEN [r |-> r1, ret |-> "panic"]
             ELSE LET old_id == r1.old_id + v.value
                      i == advance(r1.id_map, r1.i, old_id)
                      r2 == [r1 EXCEPT !.d = @ + v.n, !.old_id = old_id, !.i = i]
                  IN  IF i >= Len(r2.id_map)
                      THEN [r |-> [r2 EXCEPT !.count = 0, !.file_id = U32_MAX], ret |-> "false"]
                      ELSE IF old_id < r2.id_map[i + 1].low
                      THEN next_id_emits_new(r2, ix)
                      ELSE [r |-> [r2 EXCEPT !.file_id = r2.id_map[i + 1].new],
                            ret |-> "true"]
    ELSE [r |-> [r EXCEPT !.file_id = U32_MAX], ret |-> "false"]

\* PostMapReader::next_id: the reader after the call and what it returned
\* ("true", "false", or "panic" when it panics).
RECURSIVE next_id(_, _)
next_id(r, ix) ==
    IF r.count > 0
    THEN LET r1 == [r EXCEPT !.count = @ - 1]
             v == read_uvarint(ix, r1.d + 1)
         IN  IF v.n <= 0 \/ v.value = 0
             THEN [r |-> r1, ret |-> "panic"]
             ELSE LET old_id == r1.old_id + v.value
                      i == advance(r1.id_map, r1.i, old_id)
                      r2 == [r1 EXCEPT !.d = @ + v.n, !.old_id = old_id, !.i = i]
                  IN  IF i >= Len(r2.id_map)
                      THEN [r |-> [r2 EXCEPT !.count = 0, !.file_id = U32_MAX], ret |-> "false"]
                      ELSE IF old_id < r2.id_map[i + 1].low
                      THEN next_id(r2, ix)
                      ELSE [r |-> [r2 EXCEPT !.file_id = r2.id_map[i + 1].new + old_id
                                                         - r2.id_map[i + 1].low],
                            ret |-> "true"]
    ELSE [r |-> [r EXCEPT !.file_id = U32_MAX], ret |-> "false"]

\* IdRange
IdRange(low, high, new_id) == [low |-> low, high |-> high, new |-> new_id]

\* The id maps: sorted sequences of at most two disjoint ranges.
IdMaps ==
    LET Ends == 0..(MaxCorpus + 1)
        News == {0, MaxCorpus}
        Ranges == {IdRange(l, h, n) : l \in Ends, h \in Ends, n \in News}
        Valid == {x \in Ranges : x.low < x.high}
    IN  {<<>>} \cup {<<x>> : x \in Valid}
               \cup {<<p[1], p[2]>> : p \in {q \in Valid \X Valid : q[1].high <= q[2].low}}

\* The trigram streams of the files of the corpora the reader is run on: the
\* streams over the two lowest trigrams that the reader yields in ascending
\* order.
CorpusStreams ==
    {st \in Streams : /\ \A k \in 1..Len(st) : \E t \in Trigrams : st[k] < t
                      /\ \A k \in 1..(Len(st) - 1) : st[k] < st[k + 1]}

\* The writer after the files of corpus were added in order and the log of
\* the adds that returned Ok.
RECURSIVE add_all(_, _, _)
add_all(w, log, corpus) ==
    IF corpus = <<>> THEN [w |-> w, log |-> log]
    ELSE LET r == add(w, <<97>>, Head(corpus), "None", max_file_len)
         IN  add_all(r.w,
                     IF r.res = "Ok"
                     THEN Append(log, [filename |-> <<97>>,
                                       trigrams |-> TrigramSet(Head(corpus)),
                                       file_id |-> r.id])
                     ELSE log,
                     Tail(corpus))

\* The state after an index of a corpus has been flushed.
InitReader ==
    \E corpus \in SeqsUpTo(CorpusStreams, MaxCorpus) :
        LET a == add_all(NewWriter, <<>>, corpus)
            f == flush(a.w)
        IN  /\ paths = f.w.paths
            /\ name_data = f.w.name_data
            /\ name_index = f.w.name_index
            /\ trigram = f.w.trigram
            /\ number_of_names_written = f.w.number_of_names_written
            /\ bytes_written = f.w.bytes_written
            /\ post = f.w.post
            /\ post_files = f.w.post_files
            /\ post_index = f.w.post_index
            /\ index = f.w.index
            /\ pc = "Done"
            /\ result = f.res
            /\ calls = Len(corpus)
            /\ spills = 0
            /\ added = a.log
            /\ clean = f.w
            /\ run_by = [k \in 1..Len(a.w.post_files) |-> "push"]
            /\ heap_runs = Len(a.w.post_files) + 1
            /\ io_error = "none"
            /\ reader = NoReader
            /\ next_ret = "none"
            /\ yielded = <<>>

\* PostMapReader::new over the flushed index.
ReaderNew(id_map) ==
    /\ pc = "Done"
    /\ result = "Ok"
    /\ reader = NoReader
    /\ reader' = new(index, id_map)
    /\ next_ret' = "none"
    /\ yielded' = <<>>
    /\ UNCHANGED << writer_vars, pc, result, calls, spills, added, clean, hist_vars >>

\* A call of next_id.
NextId ==
    /\ reader # NoReader
    /\ next_ret # "panic"
    /\ LET r == next_id(reader, index)
       IN  /\ reader' = r.r
           /\ next_ret' = r.ret
           /\ yielded' = IF r.ret = "true" THEN Append(yielded, r.r.file_id) ELSE yielded
    /\ UNCHANGED << writer_vars, pc, result, calls, spills, added, clean, hist_vars >>

\* A call of next_trigram.
NextTrigram ==
    /\ reader # NoReader
    /\ next_ret # "panic"
    /\ reader.tri_num <= num_post(index)
    /\ reader' = next_trigram(reader, index)
    /\ next_ret' = "none"
    /\ yielded' = <<>>
    /\ UNCHANGED << writer_vars, pc, result, calls, spills, added, clean, hist_vars >>

NextReader ==
    \/ \E id_map \in IdMaps : ReaderNew(id_map)
    \/ NextId
    \/ NextTrigram

SpecReader == InitReader /\ [][NextReader]_vars

\* --------------------------------------------------------- corrupt indexes
\* The index ix with the count and the offset of directory entry k
\* overwritten.
corrupt_entry(ix, k, count, offset) ==
    LET p == section_offset(ix, 4) + k * POST_ENTRY_SIZE
    IN  SubSeq(ix, 1, p + 3) \o write_u32(count) \o write_u32(offset)
            \o SubSeq(ix, p + POST_ENTRY_SIZE + 1, Len(ix))

\* The state after an index of a corpus has been flushed and one of its
\* directory entries was damaged on disk: its count is up to MaxCount and its
\* offset points up to MaxBeyond bytes behind the posting-data section.
InitCorrupt ==
    \E corpus \in SeqsUpTo(CorpusStreams, MaxCorruptCorpus) :
        LET a == add_all(NewWriter, <<>>, corpus)
            f == flush(a.w)
            len == section_offset(f.w.index, 3) - section_offset(f.w.index, 2)
        IN  \E k \in 0..(num_post(f.w.index) - 1), count \in 0..MaxCount,
               offset \in 0..(len + MaxBeyond) :
            /\ paths = f.w.paths
            /\ name_data = f.w.name_data
            /\ name_index = f.w.name_index
            /\ trigram = f.w.trigram
            /\ number_of_names_written = f.w.number_of_names_written
            /\ bytes_written = f.w.bytes_written
            /\ post = f.w.post
            /\ post_files = f.w.post_files
            /\ post_index = f.w.post_index
            /\ index = corrupt_entry(f.w.index, k, count, offset)
            /\ pc = "Done"
            /\ result = f.res
            /\ calls = Len(corpus)
            /\ spills = 0
            /\ added = a.log
            /\ clean = f.w
            /\ run_by = [j \in 1..Len(a.w.post_files) |-> "push"]
            /\ heap_runs = Len(a.w.post_files) + 1
            /\ io_error = "none"
            /\ reader = NoReader
            /\ next_ret = "none"
            /\ yielded = <<>>

\* The id maps the reader is run with on a damaged index: one range from 0.
CorruptIdMaps == {m \in IdMaps : Len(m) = 1 /\ m[1].low = 0}

NextCorrupt ==
    \/ \E id_map \in CorruptIdMaps : ReaderNew(id_map)
    \/ NextId
    \/ NextTrigram

SpecCorrupt == InitCorrupt /\ [][NextCorrupt]_vars

\* ----------------------------------------------------------------- claims
\* flush has returned Ok: index holds a complete index file.
Flushed == pc = "Done" /\ result = "Ok"

\* The file ids of the added files whose trigram set contains t.
FilesWith(t) == {added[k].file_id : k \in {j \in 1..Len(added) : t \in added[j].trigrams}}

\* The number of post entries the adds that returned Ok have pushed.
RECURSIVE EntriesPushed(_)
EntriesPushed(log) ==
    IF log = <<>> THEN 0 ELSE Cardinality(Head(log).trigrams) + EntriesPushed(Tail(log))

\* C1: round trip. After flush, for every trigram t the posting list written
\* for t decodes to exactly the file ids of the added files whose trigram set
\* contains t, and a trigram of no added file has no directory entry.
C1_RoundTrip ==
    Flushed =>
        \A t \in Trigrams :
            /\ list(index, t) = FilesWith(t)
            /\ FilesWith(t) = {} <=> find_list(index, t) = {}

\* C1 witness: a flushed index of two files that share a trigram, built from
\* more entries than the post buffer holds (so at least one run was spilled).
C1_Witness ==
    /\ Flushed
    /\ EntriesPushed(added) > NPOST
    /\ \E t \in Trigrams : Cardinality(list(index, t)) = 2
    /\ \E t \in Trigrams : list(index, t) = {}

\* C2: file ids are assigned in add order from 0. The k-th add that returned
\* Ok got file id k - 1, adds that returned an error consumed no file id, and
\* the i-th name of the name table is the name of the add that got file id i.
C2_FileIdsInAddOrder ==
    /\ \A k \in 1..Len(added) : added[k].file_id = k - 1
    /\ pc = "Adding" => number_of_names_written = Len(added)
    /\ Len(name_table(name_data)) >= Len(added)
    /\ \A k \in 1..Len(added) : name_table(name_data)[k] = added[k].filename

\* C2 witness: an add has failed with FileNameError (it left an offset in the
\* name index) and the add after it returned Ok.
C2_Witness ==
    /\ pc = "Adding"
    /\ calls = 2
    /\ Len(added) = 1
    /\ result = "Ok"
    /\ Len(name_index) = 8

\* C3: the adds that fail with a non-I/O error leave no trace. The index
\* flush writes is the index of the same calls without the failing adds.
C3_FailedAddsLeaveNoTrace == Flushed => index = clean.index

\* C4: an add that fails with an error of the trigram reader leaves
\* number_of_names_written, bytes_written, the name data, the name index, the
\* post buffer and the spilled runs as they were.
C4_ReaderErrorKeepsState ==
    [][(calls' = calls + 1 /\ result' \in ReaderErrors) =>
          UNCHANGED << number_of_names_written, bytes_written, name_data,
                       name_index, post, post_files >>]_vars

\* C4 witness: add has failed with BinaryDataPresent on a writer that holds a
\* file, after the reader had yielded trigrams.
C4_Witness ==
    /\ result = "BinaryDataPresent"
    /\ calls = 2
    /\ Len(added) = 1
    /\ post # <<>>
    /\ trigram # <<>>

\* C5: every posting list merge_post wrote has strictly positive deltas, so
\* its file ids are strictly ascending, the first delta being the first file
\* id plus one.
C5_DeltasPositive ==
    Flushed =>
        \A k \in 0..(num_post(index) - 1) :
            LET ds == list_deltas(index, k)
                ids == list_ids(index, k)
            IN  /\ \A i \in 1..Len(ds) : ds[i] > 0
                /\ \A i \in 1..(Len(ids) - 1) : ids[i] < ids[i + 1]
                /\ ids[1] \in FilesWith(dir_entry(index, k).trigram)
                /\ ds[1] = ids[1] + 1

\* C5 witness: a posting list of two file ids whose entries were split over
\* several runs.
C5_Witness ==
    /\ Flushed
    /\ EntriesPushed(added) > NPOST
    /\ \E k \in 0..(num_post(index) - 1) : Len(list_ids(index, k)) = 2

\* C6: the trigrams of the post directory are strictly ascending, each
\* trigram has one entry, and the terminator 0xffffff is there once, last.
C6_DirectoryOrder ==
    Flushed =>
        LET n == num_post(index)
        IN  /\ n >= 0
            /\ \A k \in 0..(n - 1) :
                   dir_entry(index, k).trigram < dir_entry(index, k + 1).trigram
            /\ dir_entry(index, n).trigram = END_TRIGRAM
            /\ \A k \in 0..(n - 1) : dir_entry(index, k).trigram # END_TRIGRAM
            /\ (trailer_start(index) - section_offset(index, 4)) = (n + 1) * POST_ENTRY_SIZE

\* C6 witness: a directory of three trigrams whose postings came from more
\* entries than the post buffer holds.
C6_Witness ==
    /\ Flushed
    /\ num_post(index) = 3
    /\ EntriesPushed(added) > NPOST

\* The number of varints stored in bytes from + 1 .. to of buf.
VarintsIn(buf, from, to) == Cardinality({i \in (from + 1)..to : buf[i] < 128})

\* C8: the count field of a directory entry is the number of varint deltas
\* written for its list minus one, and every list has at least one delta.
C8_CountIsDeltasMinusOne ==
    Flushed =>
        \A k \in 0..(num_post(index) - 1) :
            LET from == reader_post_data(index) + dir_entry(index, k).offset + 3
                to == reader_post_data(index) + dir_entry(index, k + 1).offset
                written == VarintsIn(index, from, to)
            IN  /\ written >= 1
                /\ dir_entry(index, k).count = written - 1
                /\ written = Cardinality(FilesWith(dir_entry(index, k).trigram))

\* C8 witness: a flushed index with a list of one delta and a list of two.
C8_Witness ==
    /\ Flushed
    /\ \E k \in 0..(num_post(index) - 1) : dir_entry(index, k).count = 0
    /\ \E k \in 0..(num_post(index) - 1) : dir_entry(index, k).count = 1

\* C9: the five section offsets of the trailer strictly increase, and the
\* sections lie in the file in that order: path list, name data, posting
\* data, name index, post index, trailer.
C9_SectionOffsetsIncrease ==
    Flushed =>
        LET off == [k \in 0..4 |-> section_offset(index, k)]
        IN  /\ \A k \in 0..3 : off[k] < off[k + 1]
            /\ off[0] = Len(MAGIC)
            /\ off[4] < trailer_start(index)
            /\ SubSeq(index, off[1] + 1, off[2]) = name_data
            /\ SubSeq(index, off[3] + 1, off[4]) = name_index
            /\ SubSeq(index, off[4] + 1, trailer_start(index)) = post_index
            /\ SubSeq(index, trailer_start(index) + 21, Len(index)) = TRAILER_MAGIC

\* C9 witness: flush of a writer that got no file and no path.
C9_Witness == Flushed /\ calls = 0 /\ paths = <<>>

\* C10: in a flushed index of N added files the name index has N + 1
\* offsets, the offsets of names i and i + 1 are len(name i) + 1 apart, and
\* offset N is the length of the name-data section.
C10_NameIndexShape ==
    Flushed =>
        LET N == Len(added)
            off == [k \in 0..4 |-> section_offset(index, k)]
            ni == name_offsets(SubSeq(index, off[3] + 1, off[4]))
        IN  /\ Len(ni) = N + 1
            /\ \A i \in 1..N : ni[i + 1] - ni[i] - 1 = Len(added[i].filename)
            /\ ni[N + 1] = off[2] - off[1]

\* The id map covers every file id of the index with one range.
Covering(id_map) ==
    /\ Len(id_map) = 1
    /\ id_map[1].low = 0
    /\ id_map[1].high >= num_name(index)

\* C7: the reader mirrors the count encoding. For a directory entry of count
\* c next_id decodes c + 1 deltas, so under an id map that covers every
\* source id it yields every file id the writer recorded for the trigram.
C7_ReaderDecodesCountPlusOne ==
    (/\ reader # NoReader
     /\ Covering(reader.id_map)
     /\ reader.tri_num < num_post(index)
     /\ next_ret = "false") =>
        /\ Len(yielded) = dir_entry(index, reader.tri_num).count + 1
        /\ {yielded[i] : i \in 1..Len(yielded)} =
               {reader.id_map[1].new + f : f \in FilesWith(reader.trigram)}

\* C11: an I/O error on a temp file during flush is fatal: the call returns
\* IoError, and never Ok with a section of which only a part was copied
\* from its temp file.
C11_IoErrorIsFatal ==
    (pc = "Done" /\ io_error # "none") => result = "IoError"

PathsAreUtf8 == \A i \in 1..Len(paths) : to_str(paths[i]).some

C14_LifeCycle ==
    [][ /\ (calls' # calls => pc = "Adding" /\ pc' = "Adding")
        /\ (spills' # spills => pc = "Adding" /\ pc' = "Adding")
        /\ ((pc = "Adding" /\ pc' = "Done") <=> index' # index)
        /\ (pc = "Done" => UNCHANGED << writer_vars, pc, result, calls, spills >>)
      ]_vars

\* A writer that had spilled a run was consumed by a flush that failed.
C14_Witness ==
    /\ pc = "Done"
    /\ result = "FileNameError"
    /\ run_by # <<>>
    /\ calls = MaxAdds

\* The terminator entry of the post index: the entry after the num_post
\* entries of the trigrams.
Terminator == dir_entry(index, num_post(index))

\* C15 as stated: the post index ends with the entry (0xFFFFFF, 0, offset)
\* whose offset is the length of the posting-data section, off[3] - off[2].
C15_TerminatorAtSectionEnd ==
    Flushed =>
        /\ Terminator.trigram = END_TRIGRAM
        /\ Terminator.count = 0
        /\ Terminator.offset = section_offset(index, 3) - section_offset(index, 2)

\* C15 amended: the post index ends with the entry (0xFFFFFF, 0, offset)
\* whose offset is that of the END list (the trigram 0xFFFFFF and one zero
\* varint) which closes the posting data: the length of the posting-data
\* section less the 4 bytes of that list.
C15_TerminatorAtEndList ==
    Flushed =>
        LET off2 == section_offset(index, 2)
            off3 == section_offset(index, 3)
        IN  /\ Terminator.trigram = END_TRIGRAM
            /\ Terminator.count = 0
            /\ Terminator.offset = off3 - off2 - 4
            /\ SubSeq(index, off2 + Terminator.offset + 1, off3)
                   = write_trigram(END_TRIGRAM) \o write_uvarint(0)
            /\ trailer_start(index) - section_offset(index, 4)
                   = (num_post(index) + 1) * POST_ENTRY_SIZE

\* An index with posting lists before the END list was flushed.
C15_Witness ==
    /\ Flushed
    /\ num_post(index) > 1
    /\ Terminator.offset > 0

\* The runs of a sequence of runs, one after the other.
RECURSIVE Flatten(_)
Flatten(runs) == IF runs = <<>> THEN <<>> ELSE Head(runs) \o Flatten(Tail(runs))

\* The entries of the spilled runs and of the post buffer.
Pending == Flatten(post_files) \o post

\* C16: while files are added no (trigram, file_id) entry is twice in the
\* post buffer and the spilled runs together: every add that returned Ok has
\* pushed each distinct trigram of its file once, under a file id that no
\* earlier add used.
C16_NoDuplicateEntry ==
    pc = "Adding" =>
        /\ \A i \in 1..Len(Pending), j \in 1..Len(Pending) :
               i # j => Pending[i] # Pending[j]
        /\ {Pending[i] : i \in 1..Len(Pending)} =
               UNION {{PostEntry(t, id) : id \in FilesWith(t)} : t \in Trigrams}
        /\ Len(Pending) = EntriesPushed(added)
        /\ \A i \in 1..Len(added), j \in 1..Len(added) :
               i # j => added[i].file_id # added[j].file_id

\* Two files that share a trigram were added, and their entries are spread over a spilled run and the post buffer.
C16_Witness ==
    /\ pc = "Adding"
    /\ Len(added) = 2
    /\ added[1].trigrams \cap added[2].trigrams # {}
    /\ post_files # <<>>
    /\ post # <<>>

\* A run is sorted ascending by (trigram, file_id).
IsSorted(run) == \A i \in 1..Len(run), j \in 1..Len(run) : i < j => EntryLess(run[i], run[j])

\* The number of runs that hold e entries when each but the last is full.
CeilDiv(e, n) == (e + n - 1) \div n

\* C17 as stated: the post buffer never holds more than NPOST entries, a run
\* is spilled only when an entry is pushed on a buffer of NPOST entries, so
\* every spilled run holds NPOST sorted entries, and a flush after E > 0
\* entries hands ceil(E / NPOST) runs to the merge heap.
C17_SpillDiscipline ==
    /\ Len(post) <= NPOST
    /\ \A k \in 1..Len(post_files) :
           Len(post_files[k]) = NPOST /\ IsSorted(post_files[k])
    /\ (Flushed /\ EntriesPushed(added) > 0) =>
           heap_runs = CeilDiv(EntriesPushed(added), NPOST)

\* C17 amended: the post buffer never holds more than NPOST entries; every
\* run spilled by push_trigrams_to_post holds NPOST sorted entries, a run
\* spilled by a call of the public flush_post holds what the buffer held, at
\* most NPOST sorted entries, and may be empty; merge_post hands the spilled
\* runs and the buffer to the heap, which after E > 0 entries are
\* ceil(E / NPOST) runs when the public flush_post was not called.
C17_SpillDisciplineOfAdd ==
    /\ Len(post) <= NPOST
    /\ pc = "Adding" => Len(run_by) = Len(post_files)
    /\ \A k \in 1..Len(post_files) :
           /\ IsSorted(post_files[k])
           /\ run_by[k] = "push" => Len(post_files[k]) = NPOST
           /\ run_by[k] = "public" => Len(post_files[k]) <= NPOST
    /\ Flushed => heap_runs = Len(run_by) + 1
    /\ (Flushed /\ EntriesPushed(added) > 0 /\ spills = 0) =>
           heap_runs = CeilDiv(EntriesPushed(added), NPOST)

\* Adds filled the buffer twice without a call of the public flush_post, and
\* the flush handed two runs to the heap.
C17_Witness ==
    /\ Flushed
    /\ spills = 0
    /\ EntriesPushed(added) = 2 * NPOST
    /\ heap_runs = 2

\* The entries of the added files as one list, in some order.
RECURSIVE ListOf(_)
ListOf(entries) ==
    IF entries = {} THEN <<>>
    ELSE LET e == CHOOSE x \in entries : TRUE
         IN  <<e>> \o ListOf(entries \ {e})

AllEntries ==
    ListOf(UNION {{PostEntry(t, id) : id \in FilesWith(t)} : t \in Trigrams})

\* The posting data and the post index of a writer that holds all entries
\* in its post buffer and never spilled.
SingleList == merge_post([NewWriter EXCEPT !.post = AllEntries])

\* C18: spilling is transparent. Whatever runs push_trigrams_to_post and
\* calls of the public flush_post have spilled, the posting data and the post
\* index of the flushed index are those of one sorted list of all entries.
C18_SpillingIsTransparent ==
    Flushed =>
        /\ SubSeq(index, section_offset(index, 2) + 1, section_offset(index, 3))
               = SingleList.index
        /\ SubSeq(index, section_offset(index, 4) + 1, trailer_start(index))
               = SingleList.post_index

\* The flushed index was merged from a run spilled by push_trigrams_to_post,
\* a run spilled by the public flush_post and the buffer.
C18_Witness ==
    /\ Flushed
    /\ \E k \in 1..Len(run_by) : run_by[k] = "push"
    /\ \E k \in 1..Len(run_by) : run_by[k] = "public"
    /\ num_post(index) >= 2

\* The source ids the reader r can still decode for its trigram.
Remaining(r) == undiff(r.old_id, read_deltas(index, r.d + 1, r.count))

\* The remap rule applied to the source ids ids: what the call returns, the
\* file id it leaves, and how many ids are left to decode.
RECURSIVE RemapRule(_, _)
RemapRule(ids, id_map) ==
    IF ids = <<>> THEN [ret |-> "false", file_id |-> U32_MAX, left |-> 0]
    ELSE LET x == Head(ids)
             In == {k \in 1..Len(id_map) : id_map[k].low <= x /\ x < id_map[k].high}
         IN  IF In # {}
             THEN LET k == CHOOSE j \in In : TRUE
                  IN  [ret |-> "true",
                       file_id |-> id_map[k].new + x - id_map[k].low,
                       left |-> Len(ids) - 1]
             ELSE IF \A k \in 1..Len(id_map) : id_map[k].high <= x
             THEN [ret |-> "false", file_id |-> U32_MAX, left |-> 0]
             ELSE RemapRule(Tail(ids), id_map)

\* C19: the remap rule of next_id. Of the source ids it decodes, the first
\* that lies in a range [low, high) of the id map is emitted as
\* new + old_id - low; an id below the low of the first range whose high
\* exceeds it is skipped; at an id that no range reaches (every high <=
\* old_id) the rest of the list is abandoned and the call returns false with
\* file_id = 0xFFFFFFFF.
C19_RemapRule ==
    [][ (reader # NoReader /\ next_ret' # "none") =>
            LET e == RemapRule(Remaining(reader), reader.id_map)
            IN  /\ next_ret' = e.ret
                /\ reader'.file_id = e.file_id
                /\ reader'.count = e.left
      ]_vars

\* The number of source ids the reader has decoded for its trigram.
Decoded == dir_entry(index, reader.tri_num).count - reader.count

\* A call of next_id skipped a source id and emitted the next one.
C19_Witness ==
    /\ reader # NoReader
    /\ reader.tri_num < num_post(index)
    /\ next_ret = "true"
    /\ Decoded = 2
    /\ Len(yielded) = 1

\* A sequence of file ids is strictly ascending.
Ascending(ids) == \A i \in 1..Len(ids), j \in 1..Len(ids) : i < j => ids[i] < ids[j]

\* C20 as stated: under every id map that is a sorted sequence of disjoint
\* ranges the ids next_id emits within one trigram are strictly ascending.
C20_RemappedIdsAscend ==
    reader # NoReader => Ascending(yielded)

\* The destination ranges of an id map follow one another as its source
\* ranges do.
NewsInOrder(id_map) ==
    \A k \in 1..(Len(id_map) - 1) :
        id_map[k + 1].new >= id_map[k].new + id_map[k].high - id_map[k].low

\* C20 amended: under an id map that is a sorted sequence of disjoint ranges
\* whose destination ranges are in the same order (the new of a range is at
\* least the new of the range before it plus the length of that range) the
\* ids next_id emits within one trigram are strictly ascending.
C20_RemappedIdsAscendInOrder ==
    (reader # NoReader /\ NewsInOrder(reader.id_map)) => Ascending(yielded)

\* Two ids of one trigram were emitted from two ranges of an id map whose
\* destination ranges are in order.
C20_Witness ==
    /\ reader # NoReader
    /\ Len(reader.id_map) = 2
    /\ NewsInOrder(reader.id_map)
    /\ Len(yielded) = 2
    /\ yielded[1] < reader.id_map[2].new
    /\ yielded[2] >= reader.id_map[2].new

\* C21: next_id never returns an id that it decoded from bytes behind the
\* posting-data section: a read that goes past the end of the section makes
\* the call panic.
C21_NoIdFromBehindPostingData ==
    (reader # NoReader /\ next_ret = "true") =>
        reader.d <= section_offset(index, 3)

\* C22: the checks of add, in every state in which add can be called and for
\* every file. add fails FileTooLong exactly when size > max_file_len, and
\* then the writer is as before the call (nothing was read, the sparse set
\* was not cleared); otherwise an error of the trigram reader is returned
\* whatever the number of trigrams; otherwise add fails TooManyTrigrams
\* exactly when the file has more than max_trigram_count distinct trigrams.
C22_ChecksOfAdd ==
    (pc = "Adding" /\ calls < MaxAdds) =>
        \A filename \in Names, stream \in Streams,
           err \in ReaderErrors \cup {"None"}, size \in Sizes :
            LET r == add(Self, filename, stream, err, size)
                n == Cardinality(TrigramSet(stream))
            IN  /\ r.res = "FileTooLong" <=> size > max_file_len
                /\ size > max_file_len => r.w = Self
                /\ (size <= max_file_len /\ err # "None") => r.res = err
                /\ (size <= max_file_len /\ err = "None") =>
                       (r.res = "TooManyTrigrams" <=> n > max_trigram_count)
                /\ r.res = "TooManyTrigrams" => err = "None"

\* An add of a file with one distinct trigram more than the cap failed
\* TooManyTrigrams, after an add of a file of max_file_len bytes was accepted.
C22_Witness ==
    /\ pc = "Adding"
    /\ calls = MaxAdds
    /\ result = "TooManyTrigrams"
    /\ Len(trigram) = max_trigram_count + 1
    /\ Len(added) = 1
    /\ bytes_written = max_file_len
    /\ Cardinality(added[1].trigrams) = max_trigram_count

====
